---- MODULE Spec2Model ----
(***************************************************************************)
(* Fixed-window rate limiter middleware (package limiter,                  *)
(* FixedWindow.New).  Every request is one execution of the returned       *)
(* handler; requests run concurrently, share one mutex, one entry store    *)
(* and the process-wide timestamp that a background updater advances.      *)
(* The BasicAuth handler (package middleware) is modelled next to it: one   *)
(* request, from its Authorization header to its return.                   *)
(***************************************************************************)
EXTENDS Integers, FiniteSets, Sequences, TLC

\* ---------------------------------------------------------------- bounds
NumReqs == 3        \* requests in one behaviour
MaxMax == 2         \* cfg.Max is drawn from 1..MaxMax
expiration == 2     \* uint64(cfg.Expiration.Seconds()), the window length
MaxTime == 3        \* the timestamp stops advancing here
MaxInstances == 2   \* limiter handlers constructed in the process
MaxPayload == 4     \* characters of an Authorization header after its scheme

\* ------------------------------------------------------------- constants
StatusBadRequest == 400
StatusUnauthorized == 401

Reqs == 1..NumReqs
Keys == {"A", "B"}
Statuses == {StatusBadRequest - 1, StatusBadRequest}

\* Zero value of the entry struct: what manager.get yields for an absent key.
ZeroEntry == [currHits |-> 0, exp |-> 0]

NoLocals ==
    [key |-> "", e |-> ZeroEntry, ts |-> 0, resetInSec |-> 0, remaining |-> 0,
     status |-> 0]

\* History of one request: the window it was counted in (its end), its rank
\* among the checks of that window, the count it fetched, the count of its
\* window before its own increment, whether it rolled the window over,
\* whether it was refunded, and whether the key's entry was written or
\* dropped by someone else between its admission and its refund.
NoGhost ==
    [win |-> 0, ord |-> 0, found |-> 0, pre |-> 0, rolled |-> FALSE,
     refunded |-> FALSE, touched |-> FALSE]

\* History of one key: the end of its current fixed window, the checks made
\* in it, the requests admitted in it and not refunded, and the refunds of
\* requests counted in it; and the same run over a store that never drops an
\* entry: the entry that store holds for the key, and whether every check so
\* far was decided as that store would have had it decided.
NoWindow ==
    [end |-> 0, checks |-> 0, admitted |-> 0, refunds |-> 0,
     kept |-> ZeroEntry, agree |-> TRUE]

VARIABLES
    cfg,        \* Config: Max, SkipSuccessfulRequests, SkipFailedRequests and
                \* the keys KeyGenerator yields for the requests
    Timestamp,  \* utils.Timestamp, seconds
    mux,        \* 0 when unlocked, else the request holding the lock
    store,      \* key -> entry kept by the storage behind the manager
    ttl,        \* key -> time the storage may drop the entry, 0 if absent
    pc,         \* request -> position in the handler
    loc,        \* request -> the handler's local variables
    hdr,        \* request -> response headers set by the handler
    gh,         \* request -> history of the request (not read by the code)
    window,     \* key -> history of the key's window (not read by the code)
    clock,      \* the process-wide timestamp updater: whether it was started,
                \* the updater tasks running, the limiters constructed
    basicAuth   \* one request in the BasicAuth handler: its configuration,
                \* its locals, position and response

vars ==
    <<cfg, Timestamp, mux, store, ttl, pc, loc, hdr, gh, window, clock,
      basicAuth>>

\* ------------------------------------------------------ the handler's code

\* Variant: a Lock that never waits.
MuxFreeAlways(m) == TRUE

\* mux.Lock() returns only when nobody holds the mutex.
MuxFree(m) == m = 0

\* manager.get(key)
ManagerGet(st, k) == st[k]

\* manager.set(key, e, cfg.Expiration): the stored entry
ManagerSet(st, k, e) == [st EXCEPT ![k] = e]

\* Variant: one entry shared by all keys.
StoredShared(st, key, e) == [k \in DOMAIN st |-> e]

\* The handler reads and writes the entry of the request's own key.
Fetched(st, key) == ManagerGet(st, key)

Stored(st, key, e) == ManagerSet(st, key, e)

\* manager.set(key, e, cfg.Expiration): the storage keeps it for cfg.Expiration
StorageTTL(tt, k, now) == [tt EXCEPT ![k] = now + expiration]

\* Variant: the window is reset only after its last second, ts > e.exp.
RolloverStrict(e, t) ==
    IF e.exp = 0 THEN [e EXCEPT !.exp = t + expiration]
    ELSE IF t > e.exp THEN [currHits |-> 0, exp |-> t + expiration]
    ELSE e

\* Set expiration if the entry does not exist, reset it if it has expired.
Rollover(e, t) ==
    IF e.exp = 0 THEN [e EXCEPT !.exp = t + expiration]
    ELSE IF t >= e.exp THEN [currHits |-> 0, exp |-> t + expiration]
    ELSE e

\* e.currHits++
Increment(e) == [e EXCEPT !.currHits = @ + 1]

\* resetInSec := e.exp - ts (uint64; e.exp > ts after Rollover)
ResetInSec(e, t) == e.exp - t

\* remaining := cfg.Max - e.currHits
Remaining(max, e) == max - e.currHits

\* Variants: the limit is taken as reached one request early, one late.
LimitReachedAtZero(remaining) == remaining <= 0

LimitReachedLate(remaining) == remaining < -1

\* if remaining < 0
LimitReached(remaining) == remaining < 0

\* Variant: the two status comparisons exchanged.
ShouldRefundInverted(c, status) ==
    \/ c.SkipSuccessfulRequests /\ status >= StatusBadRequest
    \/ c.SkipFailedRequests /\ status < StatusBadRequest

\* the condition guarding the refund
ShouldRefund(c, status) ==
    \/ c.SkipSuccessfulRequests /\ status < StatusBadRequest
    \/ c.SkipFailedRequests /\ status >= StatusBadRequest

\* Variant: the refund reuses the entry its admission check wrote.
RefundGetCached(local, stored) == local

\* e = manager.get(key): the refund works on the entry as stored now, not on
\* the copy the admission check left in e.
RefundGet(local, stored) == stored

\* e.currHits--
Decrement(e) == [e EXCEPT !.currHits = @ - 1]

\* headers of the two return paths
RejectHeaders(resetInSec) == {<<"Retry-After", resetInSec>>}

ForwardHeaders(max, remaining, resetInSec) ==
    {<<"X-RateLimit-Limit", max>>,
     <<"X-RateLimit-Remaining", remaining>>,
     <<"X-RateLimit-Reset", resetInSec>>}

\* No request is in the BasicAuth handler.
NoBasicAuth ==
    [pc |-> "none", Next |-> FALSE, Users |-> <<>>, auth |-> <<>>,
     raw |-> <<>>, username |-> <<>>, password |-> <<>>, values |-> {},
     called |-> 0, unauthorized |-> 0, status |-> 0, header |-> {}]

\* The updater before the first limiter is constructed.
ClockStopped == [once |-> FALSE, updaters |-> 0, instances |-> 0]

\* Variant: every call launches an updater.
StartTimeStampUpdaterAlways(c) ==
    [c EXCEPT !.once = TRUE, !.updaters = @ + 1]

\* utils.StartTimeStampUpdater(): launches the one background updater if it
\* is not already running.
StartTimeStampUpdater(c) ==
    IF c.once THEN c ELSE [c EXCEPT !.once = TRUE, !.updaters = @ + 1]

\* ------------------------------------------------------------------ Init
Started ==
    /\ Timestamp = 1
    /\ clock = [once |-> TRUE, updaters |-> 1, instances |-> 1]
    /\ mux = 0
    /\ store = [k \in Keys |-> ZeroEntry]
    /\ ttl = [k \in Keys |-> 0]
    /\ pc = [r \in Reqs |-> "idle"]
    /\ loc = [r \in Reqs |-> NoLocals]
    /\ hdr = [r \in Reqs |-> {}]
    /\ gh = [r \in Reqs |-> NoGhost]
    /\ window = [k \in Keys |-> NoWindow]

\* Every configuration; all requests carry one key.
Init ==
    /\ cfg \in [Max : 1..MaxMax,
                SkipSuccessfulRequests : BOOLEAN,
                SkipFailedRequests : BOOLEAN,
                KeyGenerator : {{"A"}}]
    /\ basicAuth = NoBasicAuth
    /\ Started

\* Requests of two keys; successful requests are not counted.
InitKeys ==
    /\ cfg \in [Max : 1..MaxMax,
                SkipSuccessfulRequests : {TRUE},
                SkipFailedRequests : {FALSE},
                KeyGenerator : {Keys}]
    /\ basicAuth = NoBasicAuth
    /\ Started

Terminal == {"bypassed", "rejected", "forwarded"}

\* A handler that has reached its return statement returns before anything
\* else happens: the return touches nothing but its own context.
Quiet == \A q \in Reqs : pc[q] \notin Terminal

\* Requests are numbered in the order they reach the handler.
NextToArrive(r) ==
    /\ clock.instances > 0
    /\ pc[r] = "idle"
    /\ \A q \in Reqs : q < r => pc[q] # "idle"

\* Variant: the bypass leaves through the header-setting end of the handler.
BypassWithHeaders(r) ==
    /\ Quiet
    /\ NextToArrive(r)
    /\ pc' = [pc EXCEPT ![r] = "bypassed"]
    /\ hdr' = [hdr EXCEPT ![r] = ForwardHeaders(cfg.Max, cfg.Max, expiration)]
    /\ UNCHANGED <<cfg, clock, basicAuth, Timestamp, mux, store, ttl, loc, gh, window>>

\* cfg.Next != nil && cfg.Next(c): return c.Next()
Bypass(r) ==
    /\ Quiet
    /\ NextToArrive(r)
    /\ pc' = [pc EXCEPT ![r] = "bypassed"]
    /\ UNCHANGED <<cfg, clock, basicAuth, Timestamp, mux, store, ttl, loc, hdr, gh, window>>

\* key := cfg.KeyGenerator(c)
Arrive(r, k) ==
    /\ Quiet
    /\ NextToArrive(r)
    /\ pc' = [pc EXCEPT ![r] = "lock"]
    /\ loc' = [loc EXCEPT ![r].key = k]
    /\ UNCHANGED <<cfg, clock, basicAuth, Timestamp, mux, store, ttl, hdr, gh, window>>

\* mux.Lock(); e := manager.get(key)
LockGet(r) ==
    /\ Quiet
    /\ pc[r] = "lock"
    /\ MuxFree(mux)
    /\ mux' = r
    /\ loc' = [loc EXCEPT ![r].e = Fetched(store, loc[r].key)]
    /\ pc' = [pc EXCEPT ![r] = "update"]
    /\ UNCHANGED <<cfg, clock, basicAuth, Timestamp, store, ttl, hdr, gh, window>>

\* History: key k's entry is written by request r (0: dropped by the storage)
\* while request q is between its admission and its refund.
Touch(g, r, k) ==
    [q \in Reqs |->
        IF q # r /\ loc[q].key = k /\ pc[q] \in {"next", "rlock"}
        THEN [g[q] EXCEPT !.touched = TRUE] ELSE g[q]]

\* History: a check of key k at time t, admitted or not, in fixed windows of
\* length expiration that open at the first check after the previous one ended.
Counted(w, t, admitted) ==
    LET a == IF admitted THEN 1 ELSE 0
    IN  IF w.end = 0 \/ t >= w.end
        THEN [w EXCEPT !.end = t + expiration, !.checks = 1, !.admitted = a,
                       !.refunds = 0]
        ELSE [w EXCEPT !.checks = @ + 1, !.admitted = @ + a]

\* History: the refund of a request that was counted in the window ending at
\* win.
Uncounted(w, win) ==
    IF w.end = win
    THEN [w EXCEPT !.admitted = @ - 1, !.refunds = @ + 1]
    ELSE w

\* History: the check and the refund as they go over the store that never
\* drops an entry.
KeptChecked(w, t, max, limited) ==
    LET e2 == Increment(Rollover(w.kept, t))
    IN  [w EXCEPT !.kept = e2,
                  !.agree = @ /\ (LimitReached(Remaining(max, e2)) = limited)]

KeptRefunded(w) == [w EXCEPT !.kept = Decrement(@)]

\* Variant: resetInSec is taken from the entry as fetched, before the
\* expiration is set or renewed.
CheckedResetFirst(e, t, max) ==
    LET e2 == Increment(Rollover(e, t))
    IN  [e |-> e2, ts |-> t, resetInSec |-> ResetInSec(e, t),
         remaining |-> Remaining(max, e2)]

\* ts := Timestamp; rollover; e.currHits++; resetInSec; remaining
Checked(e, t, max) ==
    LET e2 == Increment(Rollover(e, t))
    IN  [e |-> e2, ts |-> t, resetInSec |-> ResetInSec(e2, t),
         remaining |-> Remaining(max, e2)]

\* Variant: the Unlock is missing.
ReleasedNever(m, r) == m

\* mux.Unlock()
Released(m, r) == IF m = r THEN 0 ELSE m

\* The critical section of the admission check: the timestamp is read, the
\* entry updated and stored, the mutex released.
Update(r) ==
    LET k == loc[r].key
        c == Checked(loc[r].e, Timestamp, cfg.Max)
        w2 == KeptChecked(Counted(window[k], c.ts, ~LimitReached(c.remaining)),
                          c.ts, cfg.Max, LimitReached(c.remaining))
    IN  /\ pc[r] = "update"
        /\ Quiet
        /\ loc' = [loc EXCEPT ![r].e = c.e,
                              ![r].ts = c.ts,
                              ![r].resetInSec = c.resetInSec,
                              ![r].remaining = c.remaining]
        /\ store' = Stored(store, k, c.e)
        /\ ttl' = StorageTTL(ttl, k, Timestamp)
        /\ mux' = Released(mux, r)
        /\ window' = [window EXCEPT ![k] = w2]
        /\ gh' = [Touch(gh, r, k) EXCEPT
                    ![r].win = w2.end,
                    ![r].ord = w2.checks,
                    ![r].found = loc[r].e.currHits,
                    ![r].pre = c.e.currHits - 1,
                    ![r].rolled = (loc[r].e.exp # 0 /\ c.ts >= loc[r].e.exp)]
        /\ UNCHANGED <<cfg, clock, basicAuth, Timestamp>>

\* The rejected path: update and unlock, Retry-After, return cfg.LimitReached(c)
CheckReject(r) ==
    /\ Update(r)
    /\ LimitReached(loc'[r].remaining)
    /\ hdr' = [hdr EXCEPT ![r] = @ \cup RejectHeaders(loc'[r].resetInSec)]
    /\ pc' = [pc EXCEPT ![r] = "rejected"]

\* The admitted path: update and unlock, then enter c.Next()
CheckForward(r) ==
    /\ Update(r)
    /\ ~LimitReached(loc'[r].remaining)
    /\ pc' = [pc EXCEPT ![r] = "next"]
    /\ UNCHANGED hdr

\* c.Next() returns with a status that asks for no refund: headers, return err
NextReturnKeep(r, s) ==
    /\ Quiet
    /\ pc[r] = "next"
    /\ ~ShouldRefund(cfg, s)
    /\ loc' = [loc EXCEPT ![r].status = s]
    /\ hdr' = [hdr EXCEPT ![r] = @ \cup
                 ForwardHeaders(cfg.Max, loc[r].remaining, loc[r].resetInSec)]
    /\ pc' = [pc EXCEPT ![r] = "forwarded"]
    /\ UNCHANGED <<cfg, clock, basicAuth, Timestamp, mux, store, ttl, gh, window>>

\* c.Next() returns with a status that asks for the refund
NextReturnRefund(r, s) ==
    /\ Quiet
    /\ pc[r] = "next"
    /\ ShouldRefund(cfg, s)
    /\ loc' = [loc EXCEPT ![r].status = s]
    /\ pc' = [pc EXCEPT ![r] = "rlock"]
    /\ UNCHANGED <<cfg, clock, basicAuth, Timestamp, mux, store, ttl, hdr, gh, window>>

\* mux.Lock(); e = manager.get(key)
RefundLockGet(r) ==
    /\ Quiet
    /\ Quiet
    /\ pc[r] = "rlock"
    /\ MuxFree(mux)
    /\ mux' = r
    /\ loc' = [loc EXCEPT ![r].e = RefundGet(loc[r].e, Fetched(store, loc[r].key))]
    /\ pc' = [pc EXCEPT ![r] = "rupdate"]
    /\ UNCHANGED <<cfg, clock, basicAuth, Timestamp, store, ttl, hdr, gh, window>>

\* e.currHits--; remaining++; manager.set; mux.Unlock(); headers; return err
RefundUnlock(r) ==
    LET k == loc[r].key
        e2 == Decrement(loc[r].e)
        remaining == loc[r].remaining + 1
    IN  /\ pc[r] = "rupdate"
        /\ Quiet
        /\ loc' = [loc EXCEPT ![r].e = e2, ![r].remaining = remaining]
        /\ store' = Stored(store, k, e2)
        /\ ttl' = StorageTTL(ttl, k, Timestamp)
        /\ mux' = Released(mux, r)
        /\ hdr' = [hdr EXCEPT ![r] = @ \cup
                     ForwardHeaders(cfg.Max, remaining, loc[r].resetInSec)]
        /\ window' = [window EXCEPT ![k] = KeptRefunded(Uncounted(@, gh[r].win))]
        /\ gh' = [Touch(gh, r, k) EXCEPT ![r].refunded = TRUE]
        /\ pc' = [pc EXCEPT ![r] = "forwarded"]
        /\ UNCHANGED <<cfg, clock, basicAuth, Timestamp>>

\* The handler has returned and its context is gone.
Return(r) ==
    /\ pc[r] \in Terminal
    /\ pc' = [pc EXCEPT ![r] = "done"]
    /\ loc' = [loc EXCEPT ![r] = NoLocals]
    /\ hdr' = [hdr EXCEPT ![r] = {}]
    /\ gh' = [gh EXCEPT ![r] = NoGhost]
    /\ UNCHANGED <<cfg, clock, basicAuth, Timestamp, mux, store, ttl, window>>

\* The timestamp updater: one more second.
Tick ==
    /\ Quiet
    /\ clock.updaters > 0
    /\ Timestamp < MaxTime
    /\ Timestamp' = Timestamp + 1
    /\ UNCHANGED <<cfg, clock, basicAuth, mux, store, ttl, pc, loc, hdr, gh, window>>

\* The storage drops an entry whose time-to-live has run out.  A drop inside
\* a critical section is overwritten by the section's manager.set, so drops
\* are taken while the mutex is free.
Evict(k) ==
    /\ Quiet
    /\ mux = 0
    /\ ttl[k] # 0
    /\ Timestamp >= ttl[k]
    /\ store' = [store EXCEPT ![k] = ZeroEntry]
    /\ ttl' = [ttl EXCEPT ![k] = 0]
    /\ gh' = Touch(gh, 0, k)
    /\ UNCHANGED <<cfg, clock, basicAuth, Timestamp, mux, pc, loc, hdr, window>>

ReqStep(r) ==
    \/ Bypass(r)
    \/ \E k \in cfg.KeyGenerator : Arrive(r, k)
    \/ LockGet(r)
    \/ CheckReject(r)
    \/ CheckForward(r)
    \/ \E s \in Statuses : NextReturnKeep(r, s)
    \/ \E s \in Statuses : NextReturnRefund(r, s)
    \/ RefundLockGet(r)
    \/ RefundUnlock(r)
    \/ Return(r)

Next ==
    \/ \E r \in Reqs : ReqStep(r)
    \/ Tick
    \/ \E k \in Keys : Evict(k)

Spec == Init /\ [][Next]_vars

\* The process from its start: no limiter constructed, the timestamp unset.
InitClock ==
    /\ cfg \in [Max : {1},
                SkipSuccessfulRequests : {TRUE},
                SkipFailedRequests : {FALSE},
                KeyGenerator : {{"A"}}]
    /\ Timestamp = 0
    /\ clock = ClockStopped
    /\ basicAuth = NoBasicAuth
    /\ mux = 0
    /\ store = [k \in Keys |-> ZeroEntry]
    /\ ttl = [k \in Keys |-> 0]
    /\ pc = [r \in Reqs |-> "idle"]
    /\ loc = [r \in Reqs |-> NoLocals]
    /\ hdr = [r \in Reqs |-> {}]
    /\ gh = [r \in Reqs |-> NoGhost]
    /\ window = [k \in Keys |-> NoWindow]

\* FixedWindow.New(cfg): one more limiter is constructed; the construction
\* starts the timestamp updater, which sets the timestamp when it is launched.
New ==
    /\ Quiet
    /\ clock.instances < MaxInstances
    /\ clock' = [StartTimeStampUpdater(clock) EXCEPT !.instances = @ + 1]
    /\ Timestamp' = IF Timestamp = 0 THEN 1 ELSE Timestamp
    /\ UNCHANGED <<cfg, basicAuth, mux, store, ttl, pc, loc, hdr, gh, window>>

NextClock ==
    \/ New
    \/ Next

SpecClock == InitClock /\ [][NextClock]_vars

SpecKeys == InitKeys /\ [][Next]_vars

\* A handler that can take a step takes it; a handler waiting for the mutex
\* gets it (sync.Mutex hands a starving waiter the lock).  Nothing makes a
\* request arrive, the downstream stage return, or the clock or storage act.
Fairness ==
    \A r \in Reqs :
        /\ SF_vars(LockGet(r) \/ RefundLockGet(r))
        /\ WF_vars(CheckReject(r) \/ CheckForward(r) \/ RefundUnlock(r) \/ Return(r))

FairSpec == Spec /\ Fairness

\* ------------------------------------------------- the BasicAuth handler
\* Strings are sequences of one-character strings; decoded credentials are
\* sequences of byte values.

\* The alphabet of base64.StdEncoding, by value 0..63.
Base64Std ==
    <<"A", "B", "C", "D", "E", "F", "G", "H", "I", "J", "K", "L", "M",
      "N", "O", "P", "Q", "R", "S", "T", "U", "V", "W", "X", "Y", "Z",
      "a", "b", "c", "d", "e", "f", "g", "h", "i", "j", "k", "l", "m",
      "n", "o", "p", "q", "r", "s", "t", "u", "v", "w", "x", "y", "z",
      "0", "1", "2", "3", "4", "5", "6", "7", "8", "9", "+", "/">>

IsBase64(c) == \E i \in DOMAIN Base64Std : Base64Std[i] = c

Base64Val(c) == (CHOOSE i \in DOMAIN Base64Std : Base64Std[i] = c) - 1

\* strings.ToLower on one character and on a string
LowerChar(c) ==
    IF \E i \in 1..26 : Base64Std[i] = c
    THEN Base64Std[(CHOOSE i \in 1..26 : Base64Std[i] = c) + 26]
    ELSE c

ToLower(str) == [i \in DOMAIN str |-> LowerChar(str[i])]

\* Four characters of base64 input: three bytes, or two or one before
\* padding, which may only end the input.
DecodeQuantum(q, last) ==
    LET v12 == Base64Val(q[1]) * 64 + Base64Val(q[2])
        v123 == v12 * 64 + Base64Val(q[3])
        v == v123 * 64 + Base64Val(q[4])
    IN  IF ~IsBase64(q[1]) \/ ~IsBase64(q[2])
        THEN [err |-> TRUE, raw |-> <<>>]
        ELSE IF q[3] = "=" /\ q[4] = "=" /\ last
        THEN [err |-> FALSE, raw |-> <<v12 \div 16>>]
        ELSE IF ~IsBase64(q[3])
        THEN [err |-> TRUE, raw |-> <<>>]
        ELSE IF q[4] = "=" /\ last
        THEN [err |-> FALSE, raw |-> <<v123 \div 1024, (v123 \div 4) % 256>>]
        ELSE IF ~IsBase64(q[4])
        THEN [err |-> TRUE, raw |-> <<>>]
        ELSE [err |-> FALSE,
              raw |-> <<v \div 65536, (v \div 256) % 256, v % 256>>]

\* base64.StdEncoding.DecodeString
RECURSIVE DecodeString(_)
DecodeString(str) ==
    IF Len(str) = 0 THEN [err |-> FALSE, raw |-> <<>>]
    ELSE IF Len(str) < 4 THEN [err |-> TRUE, raw |-> <<>>]
    ELSE LET d == DecodeQuantum(SubSeq(str, 1, 4), Len(str) = 4)
             rest == DecodeString(SubSeq(str, 5, Len(str)))
         IN  IF d.err \/ rest.err THEN [err |-> TRUE, raw |-> <<>>]
             ELSE [err |-> FALSE, raw |-> d.raw \o rest.raw]

\* strings.Index(creds, ":"), counted from 0; -1 when there is none
Colon == 58

Index(creds) ==
    IF \E i \in DOMAIN creds : creds[i] = Colon
    THEN (CHOOSE i \in DOMAIN creds :
            creds[i] = Colon /\ \A j \in 1..(i - 1) : creds[j] # Colon) - 1
    ELSE -1

\* len(auth) <= 6 || strings.ToLower(auth[:5]) != "basic"
NotBasic(auth) ==
    IF Len(auth) <= 6 THEN TRUE
    ELSE ToLower(SubSeq(auth, 1, 5)) # <<"b", "a", "s", "i", "c">>

\* Variant: any password is taken for a known user.
AuthorizerAnyPassword(users, user, pass) == user \in DOMAIN users

\* The default cfg.Authorizer: the user exists and the password compares equal
Authorizer(users, user, pass) ==
    user \in DOMAIN users /\ users[user] = pass

\* The default cfg.Unauthorized: WWW-Authenticate, 401, ErrUnauthorized
Unauthorized(b) ==
    [b EXCEPT !.pc = "unauthorized",
              !.unauthorized = @ + 1,
              !.header = @ \cup {<<"WWW-Authenticate", "basic realm=Restricted">>},
              !.status = StatusUnauthorized]

\* return c.Next()
CallNext(b) == [b EXCEPT !.pc = "forwarded", !.called = @ + 1]

\* The Authorization headers tried: a scheme followed by up to MaxPayload
\* characters.
Schemes ==
    {<<"B", "a", "s", "i", "c", " ">>,
     <<"b", "a", "s", "i", "c", " ">>,
     <<"B", "A", "S", "I", "C", " ">>,
     <<"B", "a", "s", "i", "c", ":">>,
     <<"B", "e", "a", "r", "e", "r">>,
     <<"B", "a", "s", "i", "c">>,
     <<>>}

PayloadChars == {"d", "T", "p", "w", "=", "!"}

Payloads == UNION {[1..n -> PayloadChars] : n \in 0..MaxPayload}

\* cfg.Users: nobody, or user "u" with password "p"
UserMaps == {<<>>, [user \in {<<117>>} |-> <<112>>]}

InitAuth ==
    /\ basicAuth \in
          {[NoBasicAuth EXCEPT !.pc = "start", !.Next = n, !.Users = u,
                               !.auth = sch \o pay] :
               n \in BOOLEAN, u \in UserMaps, sch \in Schemes, pay \in Payloads}
    /\ cfg = [Max |-> 1, SkipSuccessfulRequests |-> FALSE,
              SkipFailedRequests |-> FALSE, KeyGenerator |-> {"A"}]
    /\ Started

Limiter == <<cfg, Timestamp, mux, store, ttl, pc, loc, hdr, gh, window, clock>>

\* if cfg.Next != nil && cfg.Next(c) { return c.Next() }
AuthBypass ==
    /\ basicAuth.pc = "start"
    /\ basicAuth.Next
    /\ basicAuth' = CallNext(basicAuth)
    /\ UNCHANGED Limiter

\* the header is short or not basic: return cfg.Unauthorized(c)
AuthNotBasic ==
    /\ basicAuth.pc = "start"
    /\ ~basicAuth.Next
    /\ NotBasic(basicAuth.auth)
    /\ basicAuth' = Unauthorized(basicAuth)
    /\ UNCHANGED Limiter

AuthBasic ==
    /\ basicAuth.pc = "start"
    /\ ~basicAuth.Next
    /\ ~NotBasic(basicAuth.auth)
    /\ basicAuth' = [basicAuth EXCEPT !.pc = "decode"]
    /\ UNCHANGED Limiter

\* raw, err := base64.StdEncoding.DecodeString(auth[6:])
AuthDecodeError ==
    /\ basicAuth.pc = "decode"
    /\ DecodeString(SubSeq(basicAuth.auth, 7, Len(basicAuth.auth))).err
    /\ basicAuth' = Unauthorized(basicAuth)
    /\ UNCHANGED Limiter

AuthDecoded ==
    LET d == DecodeString(SubSeq(basicAuth.auth, 7, Len(basicAuth.auth)))
    IN  /\ basicAuth.pc = "decode"
        /\ ~d.err
        /\ basicAuth' = [basicAuth EXCEPT !.pc = "split", !.raw = d.raw]
        /\ UNCHANGED Limiter

\* index := strings.Index(creds, ":"); -1: return cfg.Unauthorized(c)
AuthNoColon ==
    /\ basicAuth.pc = "split"
    /\ Index(basicAuth.raw) = -1
    /\ basicAuth' = Unauthorized(basicAuth)
    /\ UNCHANGED Limiter

\* username := creds[:index]; password := creds[index+1:]
AuthSplit ==
    LET creds == basicAuth.raw
        index == Index(creds)
    IN  /\ basicAuth.pc = "split"
        /\ index # -1
        /\ basicAuth' = [basicAuth EXCEPT
                            !.pc = "authorize",
                            !.username = SubSeq(creds, 1, index),
                            !.password = SubSeq(creds, index + 2, Len(creds))]
        /\ UNCHANGED Limiter

\* cfg.Authorizer(username, password): store both in the context, c.Next()
AuthApproved ==
    /\ basicAuth.pc = "authorize"
    /\ Authorizer(basicAuth.Users, basicAuth.username, basicAuth.password)
    /\ basicAuth' =
          CallNext([basicAuth EXCEPT
                      !.values = {<<"username", basicAuth.username>>,
                                  <<"password", basicAuth.password>>}])
    /\ UNCHANGED Limiter

\* Authentication failed
AuthRejected ==
    /\ basicAuth.pc = "authorize"
    /\ ~Authorizer(basicAuth.Users, basicAuth.username, basicAuth.password)
    /\ basicAuth' = Unauthorized(basicAuth)
    /\ UNCHANGED Limiter

NextAuth ==
    \/ AuthBypass
    \/ AuthNotBasic
    \/ AuthBasic
    \/ AuthDecodeError
    \/ AuthDecoded
    \/ AuthNoColon
    \/ AuthSplit
    \/ AuthApproved
    \/ AuthRejected

SpecAuth == InitAuth /\ [][NextAuth]_vars

\* ------------------------------------------------------------- the claims

NoRefunds == ~cfg.SkipSuccessfulRequests /\ ~cfg.SkipFailedRequests

\* The request has made its admission check.
HasChecked(r) == gh[r].ord > 0

Min(a, b) == IF a <= b THEN a ELSE b

\* C1: for every key, the requests admitted in the key's current window and
\* not refunded never number more than cfg.Max.
C1_AdmittedWithinMax ==
    \A k \in Keys : window[k].admitted <= cfg.Max

\* C2: without refunds, however the requests interleave, the stored currHits
\* of a key equals the number of admission checks made in its window, and of
\* those checks exactly the first cfg.Max (all, if fewer) were admitted.
C2_NoLostIncrement ==
    NoRefunds =>
        \A k \in Keys :
            store[k].exp # 0 /\ store[k].exp = window[k].end =>
                /\ store[k].currHits = window[k].checks
                /\ window[k].admitted = Min(window[k].checks, cfg.Max)

\* Three requests of one key were in the handler together under Max = 2: two
\* are in the downstream call and the third has just been rejected.
C2_Witness ==
    /\ NoRefunds
    /\ cfg.Max = 2
    /\ pc[1] = "next" /\ pc[2] = "next" /\ pc[3] = "rejected"
    /\ gh[1].win = gh[3].win /\ gh[2].win = gh[3].win
    /\ store["A"].currHits = 3

\* C3: without refunds, the k-th check of a window is admitted with
\* remaining = Max - k when k <= Max, and is rejected with
\* Retry-After = exp - now when k > Max.
C3_KthRequest ==
    NoRefunds =>
        \A r \in Reqs :
            HasChecked(r) =>
                IF gh[r].ord <= cfg.Max
                THEN /\ pc[r] \in {"next", "forwarded"}
                     /\ loc[r].remaining = cfg.Max - gh[r].ord
                ELSE /\ pc[r] = "rejected"
                     /\ hdr[r] = {<<"Retry-After", loc[r].e.exp - loc[r].ts>>}

\* The Max-th request of a window was admitted with remaining 0 and the next
\* one rejected, one second into a window of two.
C3_Witness ==
    /\ NoRefunds
    /\ cfg.Max = 2
    /\ pc[2] = "next" /\ gh[2].ord = 2 /\ loc[2].remaining = 0
    /\ pc[3] = "rejected" /\ gh[3].ord = 3 /\ gh[3].win = gh[2].win
    /\ hdr[3] = {<<"Retry-After", 1>>}

StepKey(r) == IF pc[r] = "idle" THEN loc'[r].key ELSE loc[r].key

\* C6: a step of a request leaves the stored entry and the time-to-live of
\* every key other than its own unchanged, and a request is rejected only
\* when more than Max checks of its own key fall in its window.
C6_KeysIndependent ==
    [][\A r \in Reqs :
         pc'[r] # pc[r] =>
            /\ \A k \in Keys \ {StepKey(r)} :
                  store'[k] = store[k] /\ ttl'[k] = ttl[k]
            /\ pc'[r] = "rejected" => gh'[r].ord > cfg.Max]_vars

\* Key A is exhausted (count above Max) and a first request of key B is
\* admitted with remaining = Max - 1 in a window of its own.
C6_Witness ==
    /\ store["A"].currHits > cfg.Max
    /\ store["A"].exp = 3
    /\ \E r \in Reqs :
        /\ loc[r].key = "B"
        /\ pc[r] = "next"
        /\ loc[r].remaining = cfg.Max - 1
        /\ store["B"] = [currHits |-> 1, exp |-> 4]

\* C7: the stored currHits of every key is never negative.
C7_NonNegative ==
    \A k \in Keys : store[k].currHits >= 0

\* C8: a request in the downstream call does not hold the mutex and has not
\* been refunded, and every request waiting for its admission check gets
\* through it whether or not any downstream call ever returns.
C8_DownstreamUnlocked ==
    /\ [](\A r \in Reqs : pc[r] = "next" => mux # r /\ ~gh[r].refunded)
    /\ \A q \in Reqs : (pc[q] = "lock") ~> (pc[q] \in {"next", "rejected"})

\* One request is still in its downstream call while a later one has been
\* through its check and its own downstream call and has returned.
C8_Witness ==
    /\ pc[1] = "next"
    /\ pc[2] = "forwarded"
    /\ gh[2].win = gh[1].win
    /\ gh[2].ord > gh[1].ord
    /\ mux = 0

\* remaining as the admission check computed it
RemainingAtCheck(r) ==
    loc[r].remaining - (IF gh[r].refunded THEN 1 ELSE 0)

\* C9: a request whose check computed remaining < 0 is on the rejected path:
\* it never enters the downstream call, is never refunded, leaves the entry
\* it stored (its own increment included) in place, and sets Retry-After =
\* resetInSec and no other header.
C9_RejectedStops ==
    \A r \in Reqs :
        HasChecked(r) /\ RemainingAtCheck(r) < 0 =>
            /\ pc[r] = "rejected"
            /\ ~gh[r].refunded
            /\ store[loc[r].key] = loc[r].e
            /\ loc[r].e.currHits = gh[r].pre + 1
            /\ hdr[r] = {<<"Retry-After", loc[r].resetInSec>>}

\* The second request of a window under Max = 1 is rejected one second
\* before the window ends.
C9_Witness ==
    \E r \in Reqs :
        /\ pc[r] = "rejected"
        /\ cfg.Max = 1
        /\ store[loc[r].key].currHits = 2
        /\ hdr[r] = {<<"Retry-After", 1>>}

\* A request's check of key k / refund of key k takes its writing step.
CheckStep(r, k) ==
    pc[r] = "update" /\ pc'[r] \in {"next", "rejected"} /\ loc[r].key = k

RefundStep(r, k) ==
    pc[r] = "rupdate" /\ pc'[r] = "forwarded" /\ loc[r].key = k

\* C10: a step of a request changes a key's stored exp only in a check that
\* finds exp = 0 or now >= exp, and then to now + expiration, which is later
\* than the old exp; every other step of a request leaves currHits alone, or
\* is a check that adds 1 to it, or a refund that takes 1 from it.
C10_ExpForward ==
    [][pc' # pc =>
        \A k \in Keys :
            IF store'[k].exp # store[k].exp
            THEN /\ \E r \in Reqs : CheckStep(r, k)
                 /\ store[k].exp = 0 \/ Timestamp >= store[k].exp
                 /\ store'[k].exp = Timestamp + expiration
                 /\ store'[k].exp > store[k].exp
            ELSE \/ store'[k].currHits = store[k].currHits
                 \/ /\ \E r \in Reqs : CheckStep(r, k)
                    /\ store'[k].currHits = store[k].currHits + 1
                 \/ /\ \E r \in Reqs : RefundStep(r, k)
                    /\ store'[k].currHits = store[k].currHits - 1]_vars

\* A request rolled the window over, and another request counted in the new
\* window has been refunded in it; the stored exp is still the new window's.
C10_Witness ==
    \E r, q \in Reqs :
        /\ gh[r].rolled
        /\ pc[r] = "next"
        /\ pc[q] = "forwarded"
        /\ gh[q].refunded
        /\ gh[q].win = gh[r].win
        /\ store[loc[r].key].exp = gh[r].win

\* C11: a request for which cfg.Next returns true goes straight to the next
\* stage: the step reads and writes no entry and no time-to-live, does not
\* touch the mutex (it does not wait for it either), fetches no key, and sets
\* no header.
C11_BypassTouchesNothing ==
    [][\A r \in Reqs :
         pc'[r] = "bypassed" /\ pc[r] # "bypassed" =>
            /\ pc[r] = "idle"
            /\ store' = store /\ ttl' = ttl /\ mux' = mux
            /\ loc'[r] = NoLocals
            /\ hdr'[r] = {}
            /\ \A q \in Reqs \ {r} :
                  pc'[q] = pc[q] /\ loc'[q] = loc[q] /\ hdr'[q] = hdr[q]]_vars

\* A request is bypassed while another one holds the mutex inside its
\* admission check; the bypassed one carries no header and no key.
C11_Witness ==
    /\ pc[1] = "update" /\ mux = 1
    /\ pc[2] = "bypassed"
    /\ hdr[2] = {} /\ loc[2] = NoLocals

\* C12: however many limiters are constructed, at most one updater runs (and
\* one does run once a limiter exists); the timestamp changes only in a step
\* of that updater or when it is launched, never in a step of a request, which
\* only copies the timestamp into its own ts.
C12_OneUpdater ==
    /\ [](/\ clock.updaters <= 1
          /\ clock.instances > 0 => clock.updaters = 1)
    /\ [][/\ Timestamp' # Timestamp =>
               /\ pc' = pc /\ loc' = loc
               /\ clock'.updaters = 1
               /\ Timestamp' = Timestamp + 1
          /\ \A r \in Reqs :
               loc'[r].ts # loc[r].ts =>
                   loc'[r].ts \in {0, Timestamp} /\ Timestamp' = Timestamp]_vars

\* Two limiters were constructed, one updater runs and has advanced the
\* timestamp, and a request has read the advanced value.
C12_Witness ==
    /\ clock.instances >= 2
    /\ clock.updaters = 1
    /\ Timestamp >= 2
    /\ \E r \in Reqs : pc[r] = "next" /\ loc[r].ts = Timestamp

\* C13: a request is refunded at most once, and exactly when it was admitted
\* and its status meets the skip condition; the refund works on the entry it
\* fetched under the mutex, which is the entry stored at that moment, and
\* stores it with currHits one lower and exp as it was, so what other requests
\* added since this request's admission stays in the stored count.
C13_RefundOnce ==
    /\ [](\A r \in Reqs :
            /\ pc[r] = "forwarded" =>
                  (gh[r].refunded <=> ShouldRefund(cfg, loc[r].status))
            /\ pc[r] \in {"idle", "lock", "update", "next", "rlock",
                          "rupdate", "rejected", "bypassed"} => ~gh[r].refunded
            /\ pc[r] \in {"rlock", "rupdate"} =>
                  HasChecked(r) /\ ShouldRefund(cfg, loc[r].status)
            /\ pc[r] = "rupdate" =>
                  mux = r /\ loc[r].e = store[loc[r].key])
    /\ [][\A r \in Reqs :
            /\ gh[r].refunded => pc'[r] \in {"forwarded", "done"}
            /\ gh'[r].refunded /\ ~gh[r].refunded =>
                  /\ pc[r] = "rupdate"
                  /\ store'[loc[r].key] =
                        [store[loc[r].key] EXCEPT !.currHits = @ - 1]]_vars

\* A request was admitted, a second one was counted in the same window while
\* the first was in its downstream call, and the first was then refunded: the
\* stored count still holds the second one's increment.
C13_Witness ==
    \E r, q \in Reqs :
        /\ pc[r] = "forwarded" /\ gh[r].refunded /\ gh[r].touched
        /\ pc[q] = "next"
        /\ gh[q].win = gh[r].win /\ gh[q].ord = gh[r].ord + 1
        /\ store[loc[q].key] = [currHits |-> gh[q].ord - 1, exp |-> gh[q].win]

\* 1 when the request was refunded, else 0
Refunded(r) == IF gh[r].refunded THEN 1 ELSE 0

\* C14: a forwarded request carries limit = Max, remaining = Max - currHits
\* as its admission check computed it, plus 1 if it was refunded, and reset =
\* exp - now of its admission check; the remaining it carries is in 0..Max.
C14_ForwardedValues ==
    \A r \in Reqs :
        pc[r] = "forwarded" =>
            LET remaining == cfg.Max - (gh[r].pre + 1) + Refunded(r)
            IN  /\ hdr[r] = {<<"X-RateLimit-Limit", cfg.Max>>,
                             <<"X-RateLimit-Remaining", remaining>>,
                             <<"X-RateLimit-Reset", gh[r].win - loc[r].ts>>}
                /\ remaining \in 0..cfg.Max

\* C15: for every key whose stored entry is that of its current window, the
\* stored currHits equals the checks counted in that window minus the refunds
\* of requests counted in that same window; a refund of a request counted in
\* an earlier window leaves it as it is.
C15_Accounting ==
    \A k \in Keys :
        store[k].exp # 0 /\ store[k].exp = window[k].end =>
            store[k].currHits = window[k].checks - window[k].refunds

\* C16: the storage drops an entry only when its window has elapsed; every
\* check is decided as it would be over a store that never drops an entry,
\* and an entry the storage still holds has the count that store would hold.
C16_EvictionPreserves ==
    \A k \in Keys :
        /\ ttl[k] # 0 /\ store[k].exp # 0 => ttl[k] >= store[k].exp
        /\ window[k].agree
        /\ ttl[k] # 0 => store[k].currHits = window[k].kept.currHits

\* C17: with a window of expiration >= 1 seconds, the resetInSec of every
\* admission check is in 1..expiration: the timestamp read is below the exp
\* it is subtracted from, so the unsigned subtraction does not wrap; the same
\* holds of every Retry-After and X-RateLimit-Reset value set.
C17_ResetInRange ==
    \A r \in Reqs :
        HasChecked(r) =>
            /\ loc[r].resetInSec \in 1..expiration
            /\ loc[r].ts + loc[r].resetInSec = gh[r].win
            /\ \A h \in hdr[r] :
                  h[1] \in {"Retry-After", "X-RateLimit-Reset"} =>
                      h[2] \in 1..expiration

\* A request is rejected in the last second of a window that others opened
\* earlier: its Retry-After is 1.
C17_Witness ==
    \E r \in Reqs :
        /\ pc[r] = "rejected"
        /\ loc[r].ts > 1
        /\ loc[r].ts = loc[r].e.exp - 1
        /\ hdr[r] = {<<"Retry-After", 1>>}

\* The requests between manager.get and manager.set.
InCritical == {r \in Reqs : pc[r] \in {"update", "rupdate"}}

\* C18: a request holds the mutex exactly while it is between manager.get and
\* manager.set of its check or of its refund, so never in the downstream
\* call, in the rejection or after its return, and at most one request is
\* there at a time; a mutex that is held gets released, and while requests
\* wait for the mutex the waiting comes to an end.
C18_LockReleased ==
    /\ [](/\ \A r \in Reqs : mux = r <=> r \in InCritical
          /\ Cardinality(InCritical) <= 1)
    /\ (mux # 0) ~> (mux = 0)
    /\ (\E q \in Reqs : pc[q] \in {"lock", "rlock"})
           ~> (\A q \in Reqs : pc[q] \notin {"lock", "rlock"})

\* One request holds the mutex for its refund, a second waits for it at its
\* check, and a third is in its downstream call.
C18_Witness ==
    /\ mux = 1 /\ pc[1] = "rupdate"
    /\ pc[2] = "lock"
    /\ pc[3] = "next"

\* The header carries, after a six-character scheme that begins with "basic"
\* in any case, base64 that decodes to user ":" password, and the
\* configured users hold that password for that user.
ApprovedCredential(b) ==
    LET d == DecodeString(SubSeq(b.auth, 7, Len(b.auth)))
    IN  /\ Len(b.auth) > 6
        /\ \A i \in 1..5 : LowerChar(b.auth[i]) = <<"b", "a", "s", "i", "c">>[i]
        /\ ~d.err
        /\ \E i \in DOMAIN d.raw :
              /\ d.raw[i] = Colon
              /\ \A j \in 1..(i - 1) : d.raw[j] # Colon
              /\ SubSeq(d.raw, 1, i - 1) \in DOMAIN b.Users
              /\ b.Users[SubSeq(d.raw, 1, i - 1)] = SubSeq(d.raw, i + 1, Len(d.raw))

\* C19: BasicAuth calls the next stage at most once, and only when cfg.Next
\* returned true or the header is a basic credential that the Authorizer
\* approves; in every other case it returns what cfg.Unauthorized returns
\* (401 with WWW-Authenticate) and the next stage is not called.
C19_BasicAuthForwards ==
    /\ basicAuth.called + basicAuth.unauthorized <= 1
    /\ basicAuth.called = 1 =>
          /\ basicAuth.pc = "forwarded"
          /\ basicAuth.Next \/ ApprovedCredential(basicAuth)
    /\ basicAuth.pc \in {"forwarded", "unauthorized"} =>
          IF basicAuth.Next \/ ApprovedCredential(basicAuth)
          THEN basicAuth.pc = "forwarded" /\ basicAuth.called = 1
          ELSE /\ basicAuth.pc = "unauthorized"
               /\ basicAuth.called = 0
               /\ basicAuth.unauthorized = 1
               /\ basicAuth.status = StatusUnauthorized

\* "Basic dTpw" is user u with password p, which the configured users hold:
\* the request is forwarded with both stored in its context.
C19_Witness ==
    /\ basicAuth.pc = "forwarded"
    /\ ~basicAuth.Next
    /\ basicAuth.auth = <<"B", "a", "s", "i", "c", " ", "d", "T", "p", "w">>
    /\ basicAuth.values = {<<"username", <<117>>>>, <<"password", <<112>>>>}
    /\ basicAuth.called = 1
====
